---- MODULE Spec2Model ----
(***************************************************************************)
(* Model of the geometry-node assistant backend (apps/api):                *)
(*   - the job registry and the per-job event queue (routers/ai_router.py) *)
(*   - the background workflow run (utils/background_tasks.py)             *)
(*   - the intent-routed workflow graph and its nodes (agent/flow.py)      *)
(*   - the helpers the nodes call (utils/call_llm.py, utils/parse_yaml.py, *)
(*     utils/apply_diff.py)                                                *)
(* Texts are sequences of tokens (a token is a line or a marker) and a     *)
(* model fragment is a short text.  Python values are records              *)
(* [type, text, next_action].  A workflow node is one step: the code never *)
(* suspends inside a node, so every interleaving the event loop can        *)
(* produce is among the ones modelled here.  The files ApplyDiff writes    *)
(* under dev/ are left out.                                                *)
(***************************************************************************)
EXTENDS Integers, Sequences, FiniteSets, TLC

\* ------------------------------------------------------------------ bounds
MaxJobs == 2
MaxSubs == 2
MaxChunks == 2

JobIds == 1..MaxJobs
UnknownId == 0
Subscribers == 1..MaxSubs

\* ------------------------------------------------------------- generic ops
BSeq(S, n) == UNION {[1..k -> S] : k \in 0..n}

IsPrefix(s, t) == Len(s) <= Len(t) /\ SubSeq(t, 1, Len(s)) = s

FirstIdx(seq, S) ==
  IF \E i \in 1..Len(seq) : seq[i] \in S
  THEN CHOOSE i \in 1..Len(seq) : seq[i] \in S /\ \A k \in 1..(i-1) : seq[k] \notin S
  ELSE 0

\* text before the first token of S (the whole text when there is none)
UpTo(seq, S) ==
  LET i == FirstIdx(seq, S) IN IF i = 0 THEN seq ELSE SubSeq(seq, 1, i-1)

\* text after the first token of S
After(seq, S) == SubSeq(seq, FirstIdx(seq, S) + 1, Len(seq))

Contains(seq, tok) == \E i \in 1..Len(seq) : seq[i] = tok

\* ----------------------------------------------------------- Python values
None == "None"
Unset == "Unset"

PyNone == [type |-> "NoneType", text |-> <<>>, next_action |-> Unset]
PyUnset == [type |-> Unset, text |-> <<>>, next_action |-> Unset]
PyStr(t) == [type |-> "str", text |-> t, next_action |-> Unset]
PyDict(na) == [type |-> "dict", text |-> <<>>, next_action |-> na]

\* ------------------------------------------------------------------ events
\* every event carries the same fields; a key the code leaves out is None / <<>>
Event(step, type, content, intent, flow_data) ==
  [step |-> step, type |-> type, content |-> content, intent |-> intent,
   flow_data |-> flow_data]

StepEvent(step, content) == Event(step, None, content, None, <<>>)

JobNotFound == Event(None, "error", <<"Job not found">>, None, <<>>)

EditFinished(intent, flow_data) == Event("edit_finished", None, <<>>, intent, flow_data)

DoneEvent == StepEvent("done", <<"Agent flow completed">>)

\* --------------------------------------------------------- model collaborator
\* what the upstream completion delivers: content fragments, and whether the
\* transport fails after them
Upstream(Fragments) == [content : BSeq(Fragments, MaxChunks), fails : BOOLEAN]

Chunk(kind, content) == [kind |-> kind, content |-> content]

RECURSIVE DataChunks(_)
DataChunks(content) ==
  IF content = <<>> THEN <<>>
  ELSE <<Chunk("data", Head(content))>> \o DataChunks(Tail(content))

stream(up) ==
  (IF up.content # <<>> THEN <<Chunk("id", <<>>)>> ELSE <<>>)
    \o DataChunks(up.content)
    \o (IF up.fails THEN <<Chunk("error", <<"Sorry, an error occurred while processing your request.">>)>>
        ELSE IF up.content # <<>> THEN <<Chunk("done", <<>>)>> ELSE <<>>)

\* the response buffer a node accumulates from a stream
RECURSIVE resp_buffer(_)
resp_buffer(chunks) ==
  IF chunks = <<>> THEN <<>>
  ELSE (IF Head(chunks).kind = "data" THEN Head(chunks).content ELSE <<>>)
         \o resp_buffer(Tail(chunks))

\* ------------------------------------------------------ structured responses
ValidIntents == {"modify_scene", "modify_node", "generate_scene", "generate_node", "chat"}

\* a label the recognition prompt does not list
OtherIntent == "delete_scene"

\* the three backquotes of a fenced code block are written [fence]
FenceYaml == "[fence]yaml"
FenceYml == "[fence]yml"
Fence == "[fence]"
Fences == {FenceYaml, FenceYml, Fence}

\* lines of a YAML answer: "next_action: <label>", another key, a plain
\* scalar, and a line no YAML parser accepts
MapLines == {"next_action: modify_scene", "next_action: modify_node",
             "next_action: generate_scene", "next_action: generate_node",
             "next_action: chat", "next_action: delete_scene", "reason: because"}
ScalarLine == "hello"
BadLine == "key: : ["

YamlTokens == Fences \cup MapLines \cup {ScalarLine, BadLine}

YamlFragments == {<<t>> : t \in YamlTokens}

NextActionOf(line) ==
  CASE line = "next_action: modify_scene" -> "modify_scene"
    [] line = "next_action: modify_node" -> "modify_node"
    [] line = "next_action: generate_scene" -> "generate_scene"
    [] line = "next_action: generate_node" -> "generate_node"
    [] line = "next_action: chat" -> "chat"
    [] line = "next_action: delete_scene" -> OtherIntent
    [] OTHER -> Unset

\* the value of the last "next_action" line (PyYAML keeps the last duplicate)
RECURSIVE LastNextAction(_)
LastNextAction(lines) ==
  IF lines = <<>> THEN Unset
  ELSE LET rest == LastNextAction(Tail(lines))
       IN IF rest # Unset THEN rest ELSE NextActionOf(Head(lines))

\* yaml.safe_load and the YAMLError handler of parse_yaml_to_dict
yaml_safe_load(lines) ==
  IF lines = <<>> THEN PyNone
  ELSE IF \A i \in 1..Len(lines) : lines[i] \in MapLines THEN PyDict(LastNextAction(lines))
  ELSE IF \A i \in 1..Len(lines) : lines[i] = ScalarLine THEN PyStr(lines)
  ELSE PyNone

parse_yaml_to_dict(content) ==
  LET yaml_content ==
        IF Contains(content, FenceYaml) THEN UpTo(After(content, {FenceYaml}), Fences)
        ELSE IF Contains(content, FenceYml) THEN UpTo(After(content, {FenceYml}), Fences)
        ELSE IF Contains(content, Fence) THEN UpTo(After(content, {Fence}), Fences)
        ELSE content
  IN yaml_safe_load(yaml_content)

\* ------------------------------------------------------------------- diffs
FenceDiff == "[fence]diff"
SEARCH == "<<<<<<< SEARCH"
REPLACE == ">>>>>>> REPLACE"
Space == " "
SEPARATOR == "======="

\* fragments of a diff answer; two of them make a block that replaces the
\* line "nodes" by the line "vertices"
DiffFragments == {<<FenceDiff>>, <<Fence>>, <<Space>>, <<SEARCH>>, <<REPLACE>>,
                  <<SEARCH, "nodes", SEPARATOR>>, <<"vertices", REPLACE>>}

RECURSIVE LStrip(_)
LStrip(t) == IF t # <<>> /\ Head(t) = Space THEN LStrip(Tail(t)) ELSE t

RECURSIVE RStrip(_)
RStrip(t) ==
  IF t # <<>> /\ t[Len(t)] = Space THEN RStrip(SubSeq(t, 1, Len(t) - 1)) ELSE t

strip(t) == RStrip(LStrip(t))

\* ModifySceneNode.exec_async after the stream: the diff text, or None
valid_diff_patch(buffer) ==
  LET b1 == IF buffer # <<>> /\ Head(buffer) = FenceDiff THEN strip(Tail(buffer)) ELSE buffer
      b2 == IF b1 # <<>> /\ b1[Len(b1)] = Fence THEN strip(SubSeq(b1, 1, Len(b1) - 1)) ELSE b1
      b3 == strip(b2)
  IN IF b3 = <<>> \/ Head(b3) # SEARCH \/ b3[Len(b3)] # REPLACE THEN PyNone ELSE PyStr(b3)

\* ------------------------------------------------------------ patch and JSON
SceneDoc == <<"{", "nodes", "edges", "}">>

Returned(v) == [raised |-> FALSE, value |-> v]
Raised == [raised |-> TRUE, value |-> PyNone]

\* apply_diff as the workflow calls it: file_content is the request's
\* scene_data and modifications is the diff text.  A dict has no splitlines()
\* and a str has no sort(): both raise AttributeError before any line is
\* touched.  Of the lists of operations only the empty one is modelled, which
\* returns the text unchanged.
apply_diff(file_content, modifications) ==
  IF file_content.type # "str" THEN Raised
  ELSE IF modifications.type # "list" THEN Raised
  ELSE Returned(file_content)

\* the exception apply_diff raises, None when it returns
apply_diff_error(file_content, modifications) ==
  IF file_content.type # "str" THEN "AttributeError"
  ELSE IF modifications.type # "list" THEN "AttributeError"
  ELSE None

JsonDict(keys) == [type |-> "dict", text |-> keys, next_action |-> Unset]

json_loads(text) ==
  IF text = <<"null">> THEN Returned(PyNone)
  ELSE IF /\ Len(text) >= 2 /\ Head(text) = "{" /\ text[Len(text)] = "}"
          /\ \A i \in 2..(Len(text) - 1) : text[i] \in {"nodes", "edges"}
       THEN Returned(JsonDict(SubSeq(text, 2, Len(text) - 1)))
  ELSE Raised

\* a test that takes no value for None
is_none_never(v) == FALSE

\* `diff_content is None`
is_none(v) == v.type = "NoneType"

\* an execute phase that publishes an empty document whatever the patch call
\* and the JSON parser did
apply_diff_exec_unchecked(original_scene_json, diff_content, current_intent) ==
  [raised |-> FALSE, value |-> JsonDict(<<>>)]

\* ApplyDiffNode.exec_async from "start apply diff" on: the event to publish,
\* or a raise
apply_diff_exec(original_scene_json, diff_content, current_intent) ==
  LET r == apply_diff(original_scene_json, diff_content)
      apply_diff_result == IF r.raised THEN <<"null">> ELSE r.value.text
      d == json_loads(apply_diff_result)
  IN IF d.raised THEN Raised
     ELSE IF d.value.type # "dict" THEN Raised
     ELSE IF ~Contains(d.value.text, "nodes") \/ ~Contains(d.value.text, "edges") THEN Raised
     ELSE [raised |-> FALSE, value |-> d.value]

\* ------------------------------------------------------------ workflow graph
Nodes == {"IntentRecognition", "ModifyScene", "ModifyNode", "GenerateScene",
          "GenerateNode", "Chat", "ApplyDiff"}

EditNodes == {"ModifyScene", "ModifyNode", "GenerateScene", "GenerateNode"}

\* the wiring with the Chat node chained to ApplyDiff as the edit nodes are
create_agent_flow_chat_to_apply_diff ==
  [n \in Nodes |->
     CASE n = "IntentRecognition" ->
            {<<"modify_scene", "ModifyScene">>, <<"modify_node", "ModifyNode">>,
             <<"generate_scene", "GenerateScene">>, <<"generate_node", "GenerateNode">>,
             <<"chat", "Chat">>}
       [] n \in EditNodes -> {<<"apply_diff", "ApplyDiff">>}
       [] n = "Chat" -> {<<"done", "ApplyDiff">>}
       [] OTHER -> {}]

\* the successors each node is given by create_agent_flow: <<label, target>>
create_agent_flow ==
  [n \in Nodes |->
     CASE n = "IntentRecognition" ->
            {<<"modify_scene", "ModifyScene">>, <<"modify_node", "ModifyNode">>,
             <<"generate_scene", "GenerateScene">>, <<"generate_node", "GenerateNode">>,
             <<"chat", "Chat">>}
       [] n \in EditNodes -> {<<"apply_diff", "ApplyDiff">>}
       [] OTHER -> {}]

\* a flow that starts at the Chat node
start_node_chat == "Chat"

\* AsyncFlow(start=intent_recognition_node)
start_node == "IntentRecognition"

\* a lookup that sends ApplyDiff's "done" on to the Chat node
get_next_node_apply_diff_to_chat(curr, action) ==
  LET a == IF action = None THEN "default" ELSE action
      nxt == {e \in create_agent_flow[curr] : e[1] = a}
  IN IF curr = "ApplyDiff" THEN "Chat"
     ELSE IF nxt = {} THEN None ELSE (CHOOSE e \in nxt : TRUE)[2]

\* the flow's lookup of the next node: a label without an edge ends the flow
get_next_node(curr, action) ==
  LET a == IF action = None THEN "default" ELSE action
      nxt == {e \in create_agent_flow[curr] : e[1] = a}
  IN IF nxt = {} THEN None ELSE (CHOOSE e \in nxt : TRUE)[2]

\* the labels with the three stub edit nodes returning "apply_diff"
post_async_stubs_to_apply_diff(node, exec_res) ==
  CASE node = "IntentRecognition" -> exec_res.next_action
    [] node \in EditNodes -> "apply_diff"
    [] node = "Chat" -> "done"
    [] node = "ApplyDiff" -> "done"

\* the label each node's post_async returns
post_async(node, exec_res) ==
  CASE node = "IntentRecognition" -> exec_res.next_action
    [] node = "ModifyScene" -> "apply_diff"
    [] node \in {"ModifyNode", "GenerateScene", "GenerateNode"} -> "done"
    [] node = "Chat" -> "done"
    [] node = "ApplyDiff" -> "done"

\* ------------------------------------------------------------------- queues
\* a queue that hands out the newest item first
put_nowait_lifo(q, e) == <<e>> \o q

put_nowait(q, e) == Append(q, e)

\* asyncio.Queue.get on a non-empty queue: the item and the remaining queue
get(q) == [msg |-> Head(q), rest |-> Tail(q)]

\* -------------------------------------------------------------------- state
VARIABLES
  jobs,        \* app.state.jobs: the ids registered (each maps to its queue)
  sse_queue,   \* the queue object created for each job
  flow,        \* each job's background run: pc and current node
  shared,      \* each run's shared context
  sub,         \* each subscriber's event_stream: pc, job id, last message
  published,   \* history: every event put on each job's queue, in order
  delivered,   \* history: every event each subscriber's stream yielded
  trace,       \* history: the node phases each run has executed
  call         \* a function called on its own: name, arguments, result

vars == <<jobs, sse_queue, flow, shared, sub, published, delivered, trace, call>>

RequestData ==
  { [scene_data |-> PyUnset, has_catalog |-> FALSE],
    [scene_data |-> PyStr(SceneDoc), has_catalog |-> TRUE] }

NoFlow == [pc |-> "absent", curr |-> None]

NoShared == [request_data |-> [scene_data |-> PyUnset, has_catalog |-> FALSE],
             current_intent |-> Unset, diff_content |-> PyUnset]

NoSub == [pc |-> "idle", job_id |-> UnknownId, msg |-> StepEvent(None, <<>>)]

Init ==
  /\ jobs = {}
  /\ sse_queue = [j \in JobIds |-> <<>>]
  /\ flow = [j \in JobIds |-> NoFlow]
  /\ shared = [j \in JobIds |-> NoShared]
  /\ sub = [s \in Subscribers |-> NoSub]
  /\ published = [j \in JobIds |-> <<>>]
  /\ delivered = [s \in Subscribers |-> <<>>]
  /\ trace = [j \in JobIds |-> <<>>]
  /\ call = [fn |-> None]

\* --------------------------------------------------------------- job surface
\* POST /assistant/add_job: a fresh id, a fresh queue, the run as background task
add_job(j, request_data) ==
  /\ flow[j].pc = "absent"
  /\ \A k \in JobIds : k < j => flow[k].pc # "absent"
  /\ jobs' = jobs \cup {j}
  /\ sse_queue' = [sse_queue EXCEPT ![j] = <<>>]
  /\ flow' = [flow EXCEPT ![j].pc = "queued"]
  /\ shared' = [shared EXCEPT ![j].request_data = request_data]
  /\ UNCHANGED <<sub, published, delivered, trace, call>>

\* the background task starts: builds shared, creates the flow, enters run_async
run_agent_flow_async(j) ==
  /\ flow[j].pc = "queued"
  /\ flow' = [flow EXCEPT ![j] = [pc |-> "running", curr |-> start_node]]
  /\ UNCHANGED <<jobs, sse_queue, shared, sub, published, delivered, trace, call>>

\* the final put made whether run_async returned or raised
run_agent_flow_async_done_always(j) ==
  /\ flow[j].pc \in {"returned", "raised"}
  /\ sse_queue' = [sse_queue EXCEPT ![j] = put_nowait(@, DoneEvent)]
  /\ published' = [published EXCEPT ![j] = Append(@, DoneEvent)]
  /\ flow' = [flow EXCEPT ![j].pc = "finished"]
  /\ UNCHANGED <<jobs, shared, sub, delivered, trace, call>>

\* after run_async returned: the final put of the "done" event
run_agent_flow_async_done(j) ==
  /\ flow[j].pc = "returned"
  /\ sse_queue' = [sse_queue EXCEPT ![j] = put_nowait(@, DoneEvent)]
  /\ published' = [published EXCEPT ![j] = Append(@, DoneEvent)]
  /\ flow' = [flow EXCEPT ![j].pc = "finished"]
  /\ UNCHANGED <<jobs, shared, sub, delivered, trace, call>>

\* -------------------------------------------------------------------- nodes
\* One step per node: prep_async, exec_async, post_async and the flow's move
\* to the next node.  Nothing in a node suspends (the model stream is read
\* synchronously and put_nowait never waits).
At(j, node) == flow[j].pc = "running" /\ flow[j].curr = node

\* the phases of a node with execute entered before prepare
Phases_exec_before_prep(node, upto) ==
  LET all == <<[node |-> node, phase |-> "exec"], [node |-> node, phase |-> "prep"],
               [node |-> node, phase |-> "post"]>>
  IN SubSeq(all, 1, upto)

\* the phases a node goes through, each fed the result of the one before
Phases(node, upto) ==
  LET all == <<[node |-> node, phase |-> "prep"], [node |-> node, phase |-> "exec"],
               [node |-> node, phase |-> "post"]>>
  IN SubSeq(all, 1, upto)

\* the phases of the node that ran, the last one being where it raised if it did
Ran(j, node, upto) == trace' = [trace EXCEPT ![j] = @ \o Phases(node, upto)]

\* an exception leaves run_async and run_agent_flow_async
RaiseIn(j) == flow' = [flow EXCEPT ![j].pc = "raised"]

RECURSIVE PutAll(_, _)
PutAll(q, events) ==
  IF events = <<>> THEN q ELSE PutAll(put_nowait(q, Head(events)), Tail(events))

Publish(j, events) ==
  /\ sse_queue' = [sse_queue EXCEPT ![j] = PutAll(@, events)]
  /\ published' = [published EXCEPT ![j] = @ \o events]

\* post_async returned `action`: the orchestration loop moves on or ends
Goto(j, node, action) ==
  LET nxt == get_next_node(node, action)
  IN flow' = [flow EXCEPT ![j] =
       IF nxt = None THEN [pc |-> "returned", curr |-> None]
       ELSE [pc |-> "running", curr |-> nxt]]

\* what the recognition step can read from the model
RecognitionResults == {parse_yaml_to_dict(resp_buffer(stream(up))) : up \in Upstream(YamlFragments)}

IntentRecognitionNode(j) ==
  /\ At(j, "IntentRecognition")
  /\ \E res_dict \in RecognitionResults :
       LET thinking == StepEvent("thinking", <<"Starting intent recognition">>)
       IN IF res_dict.type = "dict" /\ res_dict.next_action # Unset
          THEN /\ Publish(j, <<thinking, StepEvent("intent_recognition", <<res_dict.next_action>>)>>)
               /\ Ran(j, "IntentRecognition", 3)
               /\ shared' = [shared EXCEPT ![j].current_intent =
                                post_async("IntentRecognition", res_dict)]
               /\ Goto(j, "IntentRecognition", post_async("IntentRecognition", res_dict))
          ELSE /\ Publish(j, <<thinking>>)
               /\ Ran(j, "IntentRecognition", 2)
               /\ RaiseIn(j)
               /\ UNCHANGED shared
  /\ UNCHANGED <<jobs, sub, delivered, call>>

StubStep(n) ==
  CASE n = "ModifyNode" -> "modify_node"
    [] n = "GenerateScene" -> "generate_scene"
    [] n = "GenerateNode" -> "generate_node"

\* ModifyNodeNode, GenerateSceneNode, GenerateNodeNode: one progress event,
\* no model call
StubNode(j) ==
  /\ \E n \in {"ModifyNode", "GenerateScene", "GenerateNode"} :
       /\ At(j, n)
       /\ Publish(j, <<StepEvent(StubStep(n), <<"execution started">>)>>)
       /\ Ran(j, n, 3)
       /\ Goto(j, n, post_async(n, PyNone))
  /\ UNCHANGED <<jobs, shared, sub, delivered, call>>

\* what the ModifyScene step can read from the model
DiffResults == {valid_diff_patch(resp_buffer(stream(up))) : up \in Upstream(DiffFragments)}

ModifySceneNode(j) ==
  /\ At(j, "ModifyScene")
  /\ IF shared[j].request_data.scene_data.type = Unset \/ ~shared[j].request_data.has_catalog
     THEN /\ Ran(j, "ModifyScene", 1)
          /\ RaiseIn(j)
          /\ UNCHANGED <<sse_queue, published, shared>>
     ELSE /\ Publish(j, <<StepEvent("modify_scene", <<"Modifying scene execution started">>)>>)
          /\ Ran(j, "ModifyScene", 3)
          /\ \E diff \in DiffResults :
               shared' = [shared EXCEPT ![j].diff_content = diff]
          /\ Goto(j, "ModifyScene", post_async("ModifyScene", PyNone))
  /\ UNCHANGED <<jobs, sub, delivered, call>>

ChatFragments == {<<"Hello">>}

RECURSIVE ChatEvents(_)
ChatEvents(chunks) ==
  IF chunks = <<>> THEN <<>>
  ELSE (IF Head(chunks).kind = "data" THEN <<StepEvent("chat", Head(chunks).content)>> ELSE <<>>)
         \o ChatEvents(Tail(chunks))

\* the events the Chat step can publish for one model stream
ChatResults == {ChatEvents(stream(up)) : up \in Upstream(ChatFragments)}

ChatNode(j) ==
  /\ At(j, "Chat")
  /\ \E events \in ChatResults : Publish(j, events)
  /\ Ran(j, "Chat", 3)
  /\ Goto(j, "Chat", post_async("Chat", PyNone))
  /\ UNCHANGED <<jobs, shared, sub, delivered, call>>

ApplyDiffNode(j) ==
  /\ At(j, "ApplyDiff")
  /\ IF \/ shared[j].current_intent = Unset
        \/ shared[j].request_data.scene_data.type = Unset
        \/ shared[j].diff_content.type = Unset
     THEN /\ Ran(j, "ApplyDiff", 1)
          /\ RaiseIn(j)
          /\ UNCHANGED <<sse_queue, published>>
     ELSE IF is_none(shared[j].diff_content)
     THEN /\ Ran(j, "ApplyDiff", 3)
          /\ Goto(j, "ApplyDiff", post_async("ApplyDiff", PyStr(<<"finish">>)))
          /\ UNCHANGED <<sse_queue, published>>
     ELSE LET r == apply_diff_exec(shared[j].request_data.scene_data,
                                   shared[j].diff_content, shared[j].current_intent)
          IN IF r.raised
             THEN /\ Ran(j, "ApplyDiff", 2)
                  /\ RaiseIn(j)
                  /\ UNCHANGED <<sse_queue, published>>
             ELSE /\ Publish(j, <<EditFinished(shared[j].current_intent, r.value.text)>>)
                  /\ Ran(j, "ApplyDiff", 3)
                  /\ Goto(j, "ApplyDiff", post_async("ApplyDiff", PyStr(<<"finish">>)))
  /\ UNCHANGED <<jobs, shared, sub, delivered, call>>

\* ------------------------------------------------------ subscriber stream
\* GET /assistant/stream/{job_id}: event_stream up to its first suspension
event_stream_start(s, job_id) ==
  /\ sub[s].pc = "idle"
  /\ \A t \in Subscribers : t < s => sub[t].pc # "idle"
  /\ job_id \in {UnknownId} \cup {k \in JobIds : k \in jobs \/ flow[k].pc # "absent"}
  /\ IF job_id \notin jobs
     THEN /\ sub' = [sub EXCEPT ![s] = [pc |-> "not_found", job_id |-> job_id, msg |-> JobNotFound]]
          /\ delivered' = [delivered EXCEPT ![s] = Append(@, JobNotFound)]
     ELSE /\ sub' = [sub EXCEPT ![s] = [pc |-> "waiting", job_id |-> job_id, msg |-> @.msg]]
          /\ UNCHANGED delivered
  /\ UNCHANGED <<jobs, sse_queue, flow, shared, published, trace, call>>

\* resumed after the "Job not found" event: the registry lookup
event_stream_lookup(s) ==
  /\ sub[s].pc = "not_found"
  /\ sub' = [sub EXCEPT ![s].pc = IF sub[s].job_id \in jobs THEN "waiting" ELSE "lookup_raised"]
  /\ UNCHANGED <<jobs, sse_queue, flow, shared, published, delivered, trace, call>>

\* await sse_queue.get() returns and the message is yielded
event_stream_get(s) ==
  /\ sub[s].pc = "waiting"
  /\ sse_queue[sub[s].job_id] # <<>>
  /\ LET g == get(sse_queue[sub[s].job_id])
     IN /\ sse_queue' = [sse_queue EXCEPT ![sub[s].job_id] = g.rest]
        /\ sub' = [sub EXCEPT ![s].pc = "yielded", ![s].msg = g.msg]
        /\ delivered' = [delivered EXCEPT ![s] = Append(@, g.msg)]
  /\ UNCHANGED <<jobs, flow, shared, published, trace, call>>

\* a stream that treats whatever event it is given as its last
is_terminal_any(msg) == msg.step # None

\* the event a stream treats as its last
is_terminal(msg) == msg.step = "done"

\* a stream that empties the registry when it stops
event_stream_resume_clears_registry(s) ==
  /\ sub[s].pc = "yielded"
  /\ IF is_terminal(sub[s].msg)
     THEN IF sub[s].job_id \in jobs
          THEN /\ jobs' = {}
               /\ sub' = [sub EXCEPT ![s].pc = "terminated"]
          ELSE /\ sub' = [sub EXCEPT ![s].pc = "del_raised"]
               /\ UNCHANGED jobs
     ELSE /\ sub' = [sub EXCEPT ![s].pc = "waiting"]
          /\ UNCHANGED jobs
  /\ UNCHANGED <<sse_queue, flow, shared, published, delivered, trace, call>>

\* resumed after a yield: deregister and stop on "done", else loop
event_stream_resume(s) ==
  /\ sub[s].pc = "yielded"
  /\ IF is_terminal(sub[s].msg)
     THEN IF sub[s].job_id \in jobs
          THEN /\ jobs' = jobs \ {sub[s].job_id}
               /\ sub' = [sub EXCEPT ![s].pc = "terminated"]
          ELSE /\ sub' = [sub EXCEPT ![s].pc = "del_raised"]
               /\ UNCHANGED jobs
     ELSE /\ sub' = [sub EXCEPT ![s].pc = "waiting"]
          /\ UNCHANGED jobs
  /\ UNCHANGED <<sse_queue, flow, shared, published, delivered, trace, call>>

\* ------------------------------------------------------------ specification
Next ==
  \/ \E j \in JobIds, rd \in RequestData : add_job(j, rd)
  \/ \E j \in JobIds : run_agent_flow_async(j)
  \/ \E j \in JobIds : IntentRecognitionNode(j)
  \/ \E j \in JobIds : StubNode(j)
  \/ \E j \in JobIds : ModifySceneNode(j)
  \/ \E j \in JobIds : ChatNode(j)
  \/ \E j \in JobIds : ApplyDiffNode(j)
  \/ \E j \in JobIds : run_agent_flow_async_done(j)
  \/ \E s \in Subscribers, id \in JobIds \cup {UnknownId} : event_stream_start(s, id)
  \/ \E s \in Subscribers : event_stream_lookup(s)
  \/ \E s \in Subscribers : event_stream_get(s)
  \/ \E s \in Subscribers : event_stream_resume(s)

Spec == Init /\ [][Next]_vars

\* ------------------------------------------- the stream on any queue content
\* event_stream driven over a registered queue holding any short sequence of
\* events, to observe how it treats each step value
MaxQueue == 3

StreamEvents == {StepEvent(k, <<>>) : k \in {"thinking", "chat", "error", "done"}}

InitStream ==
  /\ jobs = {1}
  /\ \E q \in BSeq(StreamEvents, MaxQueue) :
       /\ sse_queue = [j \in JobIds |-> IF j = 1 THEN q ELSE <<>>]
       /\ published = [j \in JobIds |-> IF j = 1 THEN q ELSE <<>>]
  /\ flow = [j \in JobIds |-> NoFlow]
  /\ shared = [j \in JobIds |-> NoShared]
  /\ sub = [s \in Subscribers |-> NoSub]
  /\ delivered = [s \in Subscribers |-> <<>>]
  /\ trace = [j \in JobIds |-> <<>>]
  /\ call = [fn |-> None]

NextStream ==
  \/ \E s \in Subscribers, id \in JobIds \cup {UnknownId} : event_stream_start(s, id)
  \/ \E s \in Subscribers : event_stream_lookup(s)
  \/ \E s \in Subscribers : event_stream_get(s)
  \/ \E s \in Subscribers : event_stream_resume(s)

StreamSpec == InitStream /\ [][NextStream]_vars

\* ------------------------------------------------- apply_diff on its own
\* apply_diff called as the workflow calls it, with a document and the text
\* of a diff, over short documents and diffs of a few blocks
MaxLines == 3
MaxBlocks == 2

PatchDocs == BSeq({"a", "b", "c"}, MaxLines)

PatchSearches == (BSeq({"a", "b"}, MaxLines - 1) \ {<<>>}) \cup {<<"z">>}

PatchReplacements == {<<>>, <<"q">>, <<"b">>}

PatchBlocks == [search : PatchSearches, replace : PatchReplacements]

PatchDiffs == BSeq(PatchBlocks, MaxBlocks) \ {<<>>}

\* the text of a diff: each block between its markers
RECURSIVE DiffText(_)
DiffText(blocks) ==
  IF blocks = <<>> THEN <<>>
  ELSE <<SEARCH>> \o Head(blocks).search \o <<SEPARATOR>> \o Head(blocks).replace
         \o <<REPLACE>> \o DiffText(Tail(blocks))

InitPatch ==
  /\ jobs = {}
  /\ sse_queue = [j \in JobIds |-> <<>>]
  /\ flow = [j \in JobIds |-> NoFlow]
  /\ shared = [j \in JobIds |-> NoShared]
  /\ sub = [s \in Subscribers |-> NoSub]
  /\ published = [j \in JobIds |-> <<>>]
  /\ delivered = [s \in Subscribers |-> <<>>]
  /\ trace = [j \in JobIds |-> <<>>]
  /\ \E doc \in PatchDocs, blocks \in PatchDiffs :
       call = [fn |-> "apply_diff", file_content |-> PyStr(doc),
               modifications |-> PyStr(DiffText(blocks)), blocks |-> blocks,
               returned |-> FALSE, result |-> Returned(PyNone), error |-> None]

\* the call: its return value or the exception it raised
apply_diff_call ==
  /\ call.fn = "apply_diff"
  /\ ~call.returned
  /\ call' = [call EXCEPT !.returned = TRUE,
                          !.result = apply_diff(call.file_content, call.modifications),
                          !.error = apply_diff_error(call.file_content, call.modifications)]
  /\ UNCHANGED <<jobs, sse_queue, flow, shared, sub, published, delivered, trace>>

NextPatch == apply_diff_call

PatchSpec == InitPatch /\ [][NextPatch]_vars

\* ------------------------------------------ a node reading one model stream
\* the stream loop of a node's exec_async on its own, over every upstream the
\* node can be given
StreamNodes == {"IntentRecognition", "ModifyScene", "Chat"}

NodeFragments(node) ==
  CASE node = "IntentRecognition" -> YamlFragments
    [] node = "ModifyScene" -> DiffFragments
    [] node = "Chat" -> ChatFragments

InitCollaborator ==
  /\ jobs = {}
  /\ sse_queue = [j \in JobIds |-> <<>>]
  /\ flow = [j \in JobIds |-> NoFlow]
  /\ shared = [j \in JobIds |-> NoShared]
  /\ sub = [s \in Subscribers |-> NoSub]
  /\ published = [j \in JobIds |-> <<>>]
  /\ delivered = [s \in Subscribers |-> <<>>]
  /\ trace = [j \in JobIds |-> <<>>]
  /\ \E node \in StreamNodes : \E up \in Upstream(NodeFragments(node)) :
       call = [fn |-> "stream", node |-> node, up |-> up, consumed |-> FALSE,
               events |-> <<>>, buffer |-> <<>>]

\* `async for chunk in stream(model, messages)` run to the end of the stream:
\* the Chat node publishes, the other nodes fill their response buffer
exec_async_stream ==
  /\ call.fn = "stream"
  /\ ~call.consumed
  /\ call' = [call EXCEPT
                !.consumed = TRUE,
                !.events = IF call.node = "Chat" THEN ChatEvents(stream(call.up)) ELSE <<>>,
                !.buffer = IF call.node = "Chat" THEN <<>> ELSE resp_buffer(stream(call.up))]
  /\ UNCHANGED <<jobs, sse_queue, flow, shared, sub, published, delivered, trace>>

NextCollaborator == exec_async_stream

CollaboratorSpec == InitCollaborator /\ [][NextCollaborator]_vars

\* ------------------------------------- ModifyScene on any response buffer
\* the end of ModifySceneNode.exec_async and its post_async on their own,
\* over every short response buffer made of markers, fences and whitespace
MaxBuffer == 5

DiffTokens == {FenceDiff, Fence, Space, SEARCH, REPLACE}

InitModifyScene ==
  /\ jobs = {}
  /\ sse_queue = [j \in JobIds |-> <<>>]
  /\ flow = [j \in JobIds |-> NoFlow]
  /\ shared = [j \in JobIds |-> NoShared]
  /\ sub = [s \in Subscribers |-> NoSub]
  /\ published = [j \in JobIds |-> <<>>]
  /\ delivered = [s \in Subscribers |-> <<>>]
  /\ trace = [j \in JobIds |-> <<>>]
  /\ \E buffer \in BSeq(DiffTokens, MaxBuffer) :
       call = [fn |-> "ModifyScene", resp_buffer |-> buffer, returned |-> FALSE,
               diff_content |-> PyUnset, label |-> None]

\* fence stripping and validation of the buffer, then post_async: the diff
\* stored in the shared context and the label returned
ModifyScene_validate ==
  /\ call.fn = "ModifyScene"
  /\ ~call.returned
  /\ call' = [call EXCEPT !.returned = TRUE,
                          !.diff_content = valid_diff_patch(call.resp_buffer),
                          !.label = post_async("ModifyScene", PyNone)]
  /\ UNCHANGED <<jobs, sse_queue, flow, shared, sub, published, delivered, trace>>

NextModifyScene == ModifyScene_validate

ModifySceneSpec == InitModifyScene /\ [][NextModifyScene]_vars

\* ------------------------------------------------------------------ claims
Last(seq) == seq[Len(seq)]

HasStep(events, step) == \E i \in 1..Len(events) : events[i].step = step

StepsOf(events) == [i \in 1..Len(events) |-> events[i].step]

\* subscriber s reads job j's queue (it found j in the registry)
Attached(s, j) ==
  sub[s].job_id = j /\ sub[s].pc \in {"waiting", "yielded", "terminated", "del_raised"}

SoleSubscriber(s, j) ==
  Attached(s, j) /\ \A t \in Subscribers \ {s} : ~Attached(t, j)

Visited(j, node) == \E i \in 1..Len(trace[j]) : trace[j][i].node = node

Executed(j, node) ==
  \E i \in 1..Len(trace[j]) : trace[j][i].node = node /\ trace[j][i].phase = "exec"

EditIntents == {"modify_scene", "modify_node", "generate_scene", "generate_node"}

\* C1: every subscriber's stream terminates, also when the workflow raised
\* mid-run.  Stated on the state a finite run reaches: no subscriber is left
\* waiting on an empty queue whose run has raised (nothing is ever put on that
\* queue again, so the subscriber would wait forever).
C1_StreamAlwaysTerminates ==
  \A s \in Subscribers, j \in JobIds :
    ~(Attached(s, j) /\ sub[s].pc = "waiting" /\ sse_queue[j] = <<>>
        /\ flow[j].pc = "raised")

\* C2: the events a job's single subscriber has been yielded, followed by the
\* events still queued, are exactly the events published, in publication order
\* (no reordering, no duplicate, no drop).
C2_FifoDelivery ==
  \A s \in Subscribers, j \in JobIds :
    SoleSubscriber(s, j) => delivered[s] \o sse_queue[j] = published[j]

C2_Witness ==
  \E s \in Subscribers, j \in JobIds :
    /\ SoleSubscriber(s, j)
    /\ sub[s].pc = "terminated"
    /\ StepsOf(delivered[s]) = <<"thinking", "intent_recognition", "chat", "done">>

\* C3: subscribing to an id that is not registered yields the one synthetic
\* error event and then ends normally: the stream does not raise and does not
\* go on to wait on a queue.
C3_UnknownJobEndsNormally ==
  \A s \in Subscribers :
    (delivered[s] # <<>> /\ delivered[s][1] = JobNotFound)
      => /\ delivered[s] = <<JobNotFound>>
         /\ sub[s].pc \notin {"lookup_raised", "waiting", "yielded"}

C5_FailedJobDeregistered ==
  \A j \in JobIds :
    (/\ flow[j].pc = "raised"
     /\ sse_queue[j] = <<>>
     /\ \A s \in Subscribers : ~(sub[s].job_id = j /\ sub[s].pc = "yielded"))
      => j \notin jobs

\* C6: a run whose recognized intent is one of the four edit intents executes
\* ApplyDiff after the edit node, before run_async returns.
C6_EditNodesReachApplyDiff ==
  \A j \in JobIds :
    (flow[j].pc \in {"returned", "finished"} /\ shared[j].current_intent \in EditIntents)
      => Executed(j, "ApplyDiff")

\* C7: a run whose recognized intent is "chat" never enters ApplyDiff, never
\* publishes "edit_finished", does not raise, and when it has finished it has
\* run exactly IntentRecognition then Chat and its last event is "done".
C7_ChatSkipsApplyDiff ==
  \A j \in JobIds :
    shared[j].current_intent = "chat"
      => /\ ~Visited(j, "ApplyDiff")
         /\ ~HasStep(published[j], "edit_finished")
         /\ flow[j].pc # "raised"
         /\ flow[j].pc = "finished"
              => /\ trace[j] = Phases("IntentRecognition", 3) \o Phases("Chat", 3)
                 /\ Last(published[j]) = DoneEvent

C7_Witness ==
  \E j \in JobIds :
    /\ shared[j].current_intent = "chat"
    /\ flow[j].pc = "finished"
    /\ HasStep(published[j], "chat")

\* the lines a diff block searches for: those between the SEARCH marker and
\* the separator
SearchLines(diff) == SubSeq(diff, 2, FirstIdx(diff, {SEPARATOR}) - 1)

WellFormedDiff(diff) ==
  /\ Len(diff) >= 3 /\ Head(diff) = SEARCH /\ Last(diff) = REPLACE
  /\ FirstIdx(diff, {SEPARATOR}) > 2

OccursIn(lines, doc) ==
  \E k \in 1..Len(doc) : SubSeq(doc, k, k + Len(lines) - 1) = lines

\* ApplyDiff ran its execute phase on a well-formed diff whose search lines
\* occur in the original document
PatchApplicable(j) ==
  /\ Executed(j, "ApplyDiff")
  /\ shared[j].diff_content.type = "str"
  /\ WellFormedDiff(shared[j].diff_content.text)
  /\ shared[j].request_data.scene_data.type = "str"
  /\ OccursIn(SearchLines(shared[j].diff_content.text), shared[j].request_data.scene_data.text)

\* C8: when ApplyDiff executes on a well-formed diff whose search text is in
\* the original document, it does not raise and the job's events are thinking,
\* intent_recognition, a progress event and one edit_finished carrying the
\* recognized intent (followed by "done" once the run has finished).
C8_PatchPublishesEditFinished ==
  \A j \in JobIds :
    PatchApplicable(j)
      => /\ flow[j].pc # "raised"
         /\ IsPrefix(<<"thinking", "intent_recognition", "modify_scene", "edit_finished">>,
                     StepsOf(published[j]))
         /\ published[j][4].intent = shared[j].current_intent

\* C9: a recognition result that is not one of the five valid intents aborts
\* the run: once IntentRecognition has run, a run whose recognized intent is
\* not valid has raised (it runs no further node and does not return).
C9_RecognitionFailureAborts ==
  \A j \in JobIds :
    (Visited(j, "IntentRecognition") /\ shared[j].current_intent \notin ValidIntents)
      => flow[j].pc = "raised"

\* C10: when the patch call inside ApplyDiff fails, the exception does not
\* leave the run: the run does not end raised.
C10_PatchFailureIsContained ==
  \A j \in JobIds :
    (/\ Executed(j, "ApplyDiff")
     /\ shared[j].diff_content.type = "str"
     /\ apply_diff(shared[j].request_data.scene_data, shared[j].diff_content).raised)
      => flow[j].pc # "raised"

\* C11: a null diff is not an error.  Once ApplyDiff has run on a stored
\* diff_content of None, the run has not raised and has published no
\* "edit_finished"; ApplyDiff went through its three phases and was the last
\* node, run_async has returned, and a finished run's last event is "done".
C11_NullDiffIsNoOp ==
  \A j \in JobIds :
    (Visited(j, "ApplyDiff") /\ shared[j].diff_content.type = "NoneType")
      => /\ flow[j].pc \in {"returned", "finished"}
         /\ ~HasStep(published[j], "edit_finished")
         /\ trace[j] = Phases("IntentRecognition", 3) \o Phases("ModifyScene", 3)
                         \o Phases("ApplyDiff", 3)
         /\ flow[j].pc = "finished" => Last(published[j]) = DoneEvent

C11_Witness ==
  \E j \in JobIds :
    /\ Executed(j, "ApplyDiff")
    /\ shared[j].diff_content.type = "NoneType"
    /\ flow[j].pc = "finished"

\* a node phase recorded in a run's trace
InTrace(j, node, phase) ==
  \E i \in 1..Len(trace[j]) : trace[j][i] = [node |-> node, phase |-> phase]

\* where in its trace a run finalized the recognition step
RecognitionPosts(j) ==
  {i \in 1..Len(trace[j]) : trace[j][i] = [node |-> "IntentRecognition", phase |-> "post"]}

\* where in its trace a run finalized an edit step
EditPosts(j) ==
  {i \in 1..Len(trace[j]) : trace[j][i].node \in EditNodes /\ trace[j][i].phase = "post"}

\* C12: in every run current_intent is written once, by the recognition
\* step's finalize, and diff_content at most once, by the finalize of the one
\* edit step that ran; neither is overwritten afterwards; and whenever
\* ApplyDiff's prepare phase has executed, both were already set.
C12_SharedSetBeforeApplyDiff ==
  /\ [](\A j \in JobIds :
          /\ shared[j].current_intent # Unset
               => Cardinality(RecognitionPosts(j)) = 1
          /\ shared[j].diff_content.type # Unset
               => Cardinality(EditPosts(j)) = 1
          /\ InTrace(j, "ApplyDiff", "prep")
               => /\ shared[j].current_intent # Unset
                  /\ shared[j].diff_content.type # Unset)
  /\ [][\A j \in JobIds :
          /\ shared[j].current_intent # Unset
               => shared'[j].current_intent = shared[j].current_intent
          /\ shared[j].diff_content.type # Unset
               => shared'[j].diff_content = shared[j].diff_content]_vars

C12_Witness ==
  \E j \in JobIds :
    /\ InTrace(j, "ApplyDiff", "prep")
    /\ shared[j].current_intent = "modify_scene"
    /\ shared[j].diff_content.type = "str"

\* C13: graph completeness.  A label without an edge at a node that has
\* outgoing edges is a wiring error caught when the graph is built, so it
\* never shows at run time: run_async only returns after a node that has no
\* outgoing edge.
C13_EveryReturnedLabelHasEdge ==
  \A j \in JobIds :
    flow[j].pc \in {"returned", "finished"}
      => create_agent_flow[Last(trace[j]).node] = {}

FindFirst(doc, search) ==
  LET ks == {k \in 1..(Len(doc) - Len(search) + 1) :
               SubSeq(doc, k, k + Len(search) - 1) = search}
  IN IF ks = {} THEN 0 ELSE CHOOSE k \in ks : \A m \in ks : k <= m

\* the document with the first occurrence of a block's search lines replaced
ReplaceFirst(doc, block) ==
  LET k == FindFirst(doc, block.search)
  IN SubSeq(doc, 1, k - 1) \o block.replace \o SubSeq(doc, k + Len(block.search), Len(doc))

\* every block finds its search lines in the document as the blocks before
\* it left it
RECURSIVE AllFound(_, _)
AllFound(doc, blocks) ==
  \/ blocks = <<>>
  \/ /\ FindFirst(doc, Head(blocks).search) # 0
     /\ AllFound(ReplaceFirst(doc, Head(blocks)), Tail(blocks))

\* the blocks applied one after another, in the order of the diff text
RECURSIVE ApplyBlocks(_, _)
ApplyBlocks(doc, blocks) ==
  IF blocks = <<>> THEN doc
  ELSE ApplyBlocks(ReplaceFirst(doc, Head(blocks)), Tail(blocks))

\* the error of a search block that has no match
NotFoundError == "SearchBlockNotFound"

PatchReturned == call.fn = "apply_diff" /\ call.returned

\* C15: when some block's search lines do not occur in the document (as the
\* earlier blocks left it), apply_diff fails with a not-found error and
\* returns no text.
C15_NotFoundFailsWithoutOutput ==
  (PatchReturned /\ ~AllFound(call.file_content.text, call.blocks))
    => call.result.raised /\ call.error = NotFoundError

\* C16: for a diff of one block whose search lines occur in the document,
\* apply_diff returns the document with the first occurrence replaced by the
\* replacement lines and every other line unchanged and in order.
C16_ReplacesFirstOccurrence ==
  (/\ PatchReturned
   /\ Len(call.blocks) = 1
   /\ FindFirst(call.file_content.text, call.blocks[1].search) # 0)
    => call.result = Returned(PyStr(ReplaceFirst(call.file_content.text, call.blocks[1])))

\* C17: for a diff of several blocks, apply_diff applies them in the order of
\* the diff text, each to the document as the earlier blocks left it and
\* each at the earliest occurrence of its search lines.
C17_BlocksAppliedInDiffOrder ==
  (/\ PatchReturned
   /\ Len(call.blocks) > 1
   /\ AllFound(call.file_content.text, call.blocks))
    => call.result = Returned(PyStr(ApplyBlocks(call.file_content.text, call.blocks)))

\* the content of the fragment the collaborator emits when its transport fails
ErrorContent == <<"Sorry, an error occurred while processing your request.">>

\* C18: when the collaborator's transport fails, the nodes treat its error
\* fragment as ordinary content: the Chat node forwards it as a "chat"
\* event (the last one, the fragment being the last of the stream), the
\* recognition and edit nodes append it to their response buffer.
C18_ErrorFragmentIsContent ==
  (call.fn = "stream" /\ call.consumed /\ call.up.fails)
    => IF call.node = "Chat"
       THEN call.events # <<>> /\ Last(call.events) = StepEvent("chat", ErrorContent)
       ELSE /\ Len(call.buffer) >= Len(ErrorContent)
            /\ SubSeq(call.buffer, Len(call.buffer) - Len(ErrorContent) + 1,
                      Len(call.buffer)) = ErrorContent

\* C19: a job's registry entry outlives its producer.  A job that was
\* created and is no longer registered has a finished run (its last event,
\* "done", is published) and a subscriber that was yielded that "done"; and
\* no step publishes an event for a job that is not registered.
C19_EntryOutlivesProducer ==
  /\ [](\A j \in JobIds :
          (flow[j].pc # "absent" /\ j \notin jobs)
            => /\ flow[j].pc = "finished"
               /\ \E s \in Subscribers :
                    /\ sub[s].job_id = j
                    /\ delivered[s] # <<>>
                    /\ Last(delivered[s]) = DoneEvent)
  /\ [][\A j \in JobIds : published'[j] # published[j] => j \in jobs]_vars

C19_Witness ==
  \E j \in JobIds, s \in Subscribers :
    /\ j \notin jobs
    /\ flow[j].pc = "finished"
    /\ sub[s].job_id = j /\ sub[s].pc = "terminated"

IsSuffix(s, t) == Len(s) <= Len(t) /\ SubSeq(t, Len(t) - Len(s) + 1, Len(t)) = s

\* C20: jobs are independent.  A job's queue only ever holds events its own
\* run published; an event a subscriber is yielded is the head of the queue
\* of the job it subscribed to and leaves every other job's queue as it was;
\* and deregistering a job leaves every other job's registry entry, queue
\* and published events as they were.
C20_JobsIndependent ==
  /\ [](\A j \in JobIds : IsSuffix(sse_queue[j], published[j]))
  /\ [][\A s \in Subscribers :
          delivered'[s] # delivered[s]
            => \/ sub'[s].pc = "not_found"
               \/ /\ sub[s].job_id \in JobIds
                  /\ sse_queue[sub[s].job_id] # <<>>
                  /\ delivered'[s] = Append(delivered[s], Head(sse_queue[sub[s].job_id]))
                  /\ \A k \in JobIds \ {sub[s].job_id} : sse_queue'[k] = sse_queue[k]]_vars
  /\ [][\A j \in JobIds :
          (j \in jobs /\ j \notin jobs')
            => \A k \in JobIds \ {j} :
                 /\ (k \in jobs) = (k \in jobs')
                 /\ sse_queue'[k] = sse_queue[k]
                 /\ published'[k] = published[k]]_vars

\* one job is deregistered while the other is still registered, its run under
\* way and its subscriber already yielded events
C20_Witness ==
  \E j, k \in JobIds, s \in Subscribers :
    /\ j # k
    /\ j \notin jobs /\ flow[j].pc = "finished"
    /\ k \in jobs /\ flow[k].pc = "running"
    /\ Attached(s, k) /\ delivered[s] # <<>>

\* a text without its surrounding whitespace and without the fenced block
\* wrapper around it, if it has one
Unwrapped(text) ==
  LET a == strip(text)
      b == strip(IF a # <<>> /\ Head(a) = FenceDiff THEN Tail(a) ELSE a)
      c == strip(IF b # <<>> /\ Last(b) = Fence THEN SubSeq(b, 1, Len(b) - 1) ELSE b)
  IN c

IsDiffPatch(text) == text # <<>> /\ Head(text) = SEARCH /\ Last(text) = REPLACE

\* C21: ModifyScene stores a null diff exactly when the model output, with
\* the fenced block wrapper and the surrounding whitespace stripped, does not
\* both begin with the SEARCH marker and end with the REPLACE marker; it
\* stores the stripped text otherwise, and returns "apply_diff" either way.
C21_NullDiffIffNotAPatch ==
  (call.fn = "ModifyScene" /\ call.returned)
    => /\ call.label = "apply_diff"
       /\ IF IsDiffPatch(Unwrapped(call.resp_buffer))
          THEN call.diff_content = PyStr(Unwrapped(call.resp_buffer))
          ELSE call.diff_content = PyNone

BranchSteps == {"modify_scene", "modify_node", "generate_scene", "generate_node", "chat"}

\* C22: the first event a run publishes is "thinking", and every event of a
\* branch step and every "edit_finished" event has an "intent_recognition"
\* event published before it.
C22_ThinkingFirstIntentBeforeBranch ==
  \A j \in JobIds :
    /\ published[j] # <<>> => published[j][1].step = "thinking"
    /\ Visited(j, "IntentRecognition") => published[j] # <<>>
    /\ \A i \in 1..Len(published[j]) :
         published[j][i].step \in BranchSteps \cup {"edit_finished"}
           => \E k \in 1..(i - 1) : published[j][k].step = "intent_recognition"

C22_Witness ==
  \E j \in JobIds :
    /\ HasStep(published[j], "modify_scene")
    /\ flow[j].pc = "finished"

\* where in a job's published events the "done" events are
DoneEvents(j) == {i \in 1..Len(published[j]) : published[j][i].step = "done"}

\* C23: "done" is published at most once per job, only for a run that
\* returned normally (its last node went through its finalize phase and the
\* run did not raise), and it is the last event of the job: once it is
\* published nothing more is published for the job.
C23_DoneOnceAndLast ==
  /\ [](\A j \in JobIds :
          /\ Cardinality(DoneEvents(j)) <= 1
          /\ DoneEvents(j) # {}
               => /\ DoneEvents(j) = {Len(published[j])}
                  /\ flow[j].pc = "finished"
                  /\ Last(trace[j]).phase = "post")
  /\ [][\A j \in JobIds :
          DoneEvents(j) # {} => published'[j] = published[j]]_vars

C23_Witness ==
  \E j \in JobIds, s \in Subscribers :
    /\ DoneEvents(j) # {}
    /\ Len(published[j]) > 3
    /\ sub[s].job_id = j /\ sub[s].pc = "terminated"

\* where in a job's published events the "edit_finished" events are
EditFinishedEvents(j) ==
  {i \in 1..Len(published[j]) : published[j][i].step = "edit_finished"}

\* the patch call of a run's ApplyDiff returned a text that parses as JSON
PatchedAndParsed(j) ==
  /\ shared[j].diff_content.type = "str"
  /\ ~apply_diff(shared[j].request_data.scene_data, shared[j].diff_content).raised
  /\ ~json_loads(apply_diff(shared[j].request_data.scene_data,
                            shared[j].diff_content).value.text).raised

\* C24: a run publishes at most one "edit_finished" event, and only from
\* ApplyDiff's execute phase, on a non-null diff, after the patch call
\* returned a text that parsed as JSON: a run whose patch call failed or
\* whose patched text is malformed has no "edit_finished" event.
C24_EditFinishedOnlyAfterPatch ==
  \A j \in JobIds :
    /\ Cardinality(EditFinishedEvents(j)) <= 1
    /\ EditFinishedEvents(j) # {}
         => Executed(j, "ApplyDiff") /\ PatchedAndParsed(j)

\* ApplyDiff executed on a diff text and its patch call failed
C24_Witness ==
  \E j \in JobIds :
    /\ Executed(j, "ApplyDiff")
    /\ shared[j].diff_content.type = "str"
    /\ apply_diff(shared[j].request_data.scene_data, shared[j].diff_content).raised
    /\ flow[j].pc = "raised"

\* where in a run's trace nodes begin (their prepare phase)
Preps(j) == {i \in 1..Len(trace[j]) : trace[j][i].phase = "prep"}

BranchNodes == EditNodes \cup {"Chat"}

\* the nodes reachable from a node of the graph in one or more steps
RECURSIVE ReachableFrom(_, _)
ReachableFrom(frontier, n) ==
  LET nxt == {e[2] : e \in UNION {create_agent_flow[m] : m \in frontier}}
  IN IF n = 0 THEN {} ELSE nxt \cup ReachableFrom(nxt, n - 1)

\* C25: the graph has no cycle, and a run enters IntentRecognition first and
\* once, then at most one branch node, then ApplyDiff at most once, and no
\* node twice; a run that has returned entered at most three nodes.
C25_AcyclicShortRuns ==
  /\ \A n \in Nodes : n \notin ReachableFrom({n}, Cardinality(Nodes))
  /\ \A j \in JobIds :
       /\ \A i, k \in Preps(j) : trace[j][i].node = trace[j][k].node => i = k
       /\ \A i \in Preps(j) :
            CASE trace[j][i].node = "IntentRecognition" -> i = 1
              [] trace[j][i].node \in BranchNodes ->
                   i > 1 /\ trace[j][1].node = "IntentRecognition"
                     /\ \A k \in Preps(j) : k < i => trace[j][k].node = "IntentRecognition"
              [] trace[j][i].node = "ApplyDiff" ->
                   \E k \in Preps(j) : k < i /\ trace[j][k].node \in BranchNodes
       /\ Cardinality(Preps(j)) <= 3
       /\ flow[j].pc \in {"returned", "finished", "raised"}
            => trace[j] # <<>> /\ trace[j][1].node = "IntentRecognition"

C25_Witness ==
  \E j \in JobIds :
    /\ flow[j].pc = "finished"
    /\ Cardinality(Preps(j)) = 3
    /\ Last(trace[j]) = [node |-> "ApplyDiff", phase |-> "post"]

\* C26: two subscribers on the same job.  Every published event is either
\* still queued or was yielded to exactly one of the two, neither stream
\* deletes a registry entry that is already deleted, and both terminate.
\* The last part is stated on the state a finite run reaches: once one of
\* them has terminated (it was yielded "done", the job's last event), the
\* other is not left waiting on the empty queue, where nothing can wake it.
C26_TwoSubscribersOneJob ==
  \A j \in JobIds : \A s, t \in Subscribers :
    (s # t /\ Attached(s, j) /\ Attached(t, j))
      => /\ Len(delivered[s]) + Len(delivered[t]) + Len(sse_queue[j]) = Len(published[j])
         /\ sub[s].pc # "del_raised"
         /\ ~(sub[s].pc = "terminated" /\ sub[t].pc = "waiting" /\ sse_queue[j] = <<>>)

====
